---- MODULE Spec2Model ----
(***************************************************************************)
(* Gateway and session-authorization layer of the Medical-Atlas portal:    *)
(* the route middleware (Session Gate), the login handler (Session         *)
(* Issuer) and the prediction handler (Prediction Proxy), with one         *)
(* browser client holding the user_role cookie.                            *)
(*                                                                         *)
(* JavaScript strings are sequences of one-character strings, so that      *)
(* toLowerCase, trim, startsWith, String(n) and the cookie regular         *)
(* expression are computed rather than assumed.  JavaScript values are     *)
(* records tagged by their typeof.                                         *)
(***************************************************************************)
EXTENDS Integers, Sequences, FiniteSets, TLC

VARIABLES variant, jar, hist, last

vars == <<variant, jar, hist, last>>

(***************************************************************************)
(* JavaScript values                                                       *)
(***************************************************************************)
Undef == [t |-> "undefined"]

Null == [t |-> "null"]

Str(s) == [t |-> "string", v |-> s]

Num(n) == [t |-> "number", v |-> n]

Bool(b) == [t |-> "boolean", v |-> b]

Arr(a) == [t |-> "array", v |-> a]

Obj(o) == [t |-> "object", v |-> o]

\* JavaScript truthiness of a value (the ! operator is its negation).
Truthy(x) ==
  CASE x.t = "undefined" -> FALSE
    [] x.t = "null" -> FALSE
    [] x.t = "string" -> Len(x.v) > 0
    [] x.t = "number" -> x.v # 0
    [] x.t = "boolean" -> x.v
    [] OTHER -> TRUE

IsStr(x) == x.t = "string"

(***************************************************************************)
(* Strings                                                                 *)
(***************************************************************************)
UpperChars == <<"A","B","C","D","E","F","G","H","I","J","K","L","M",
                "N","O","P","Q","R","S","T","U","V","W","X","Y","Z">>

LowerChars == <<"a","b","c","d","e","f","g","h","i","j","k","l","m",
                "n","o","p","q","r","s","t","u","v","w","x","y","z">>

DigitChars == <<"0","1","2","3","4","5","6","7","8","9">>

Range(s) == {s[i] : i \in DOMAIN s}

ToLowerChar(c) ==
  IF c \in Range(UpperChars)
    THEN LowerChars[CHOOSE i \in DOMAIN UpperChars : UpperChars[i] = c]
    ELSE c

\* String.prototype.toLowerCase
ToLowerCase(s) == [i \in DOMAIN s |-> ToLowerChar(s[i])]

\* String.prototype.startsWith
StartsWith(s, p) == Len(s) >= Len(p) /\ SubSeq(s, 1, Len(p)) = p

IsSpace(c) == c = " "

\* String.prototype.trim
Trim(s) ==
  LET keep == {i \in DOMAIN s : ~IsSpace(s[i])}
  IN IF keep = {} THEN <<>>
     ELSE SubSeq(s, CHOOSE i \in keep : \A j \in keep : i <= j,
                    CHOOSE i \in keep : \A j \in keep : j <= i)

\* \w of a regular expression
IsWordChar(c) ==
  c \in Range(UpperChars) \cup Range(LowerChars) \cup Range(DigitChars) \cup {"_"}

S_admin == <<"a","d","m","i","n">>

S_Admin == <<"A","d","m","i","n">>

S_ADMIN == <<"A","D","M","I","N">>

S_aDmin == <<"a","D","m","i","n">>

S_Doctor == <<"D","o","c","t","o","r">>

S_Nurse == <<"N","u","r","s","e">>

S_user_role_eq == <<"u","s","e","r","_","r","o","l","e","=">>

(***************************************************************************)
(* Session Gate: src/frontend/middleware.ts                                *)
(***************************************************************************)
P_root == <<"/">>

P_admin == <<"/","a","d","m","i","n">>

P_adminSlash == P_admin \o <<"/">>

P_adminUsers == P_admin \o <<"/","u">>

P_adminx == P_admin \o <<"x">>

P_dashboard == <<"/","d">>

Paths == {P_root, P_admin, P_adminSlash, P_adminUsers, P_adminx, P_dashboard}

Variants == {"nonclearing", "clearing"}

\* config.matcher of the two variants: "/admin" and "/admin/:path*", and
\* in the clearing variant also "/".
Matcher(v, pathname) ==
  \/ pathname = P_admin
  \/ StartsWith(pathname, P_adminSlash)
  \/ v = "clearing" /\ pathname = P_root

\* cookieHeader?.match(/\buser_role=([^;]+)/): the positions where the
\* expression matches; the match is the leftmost of them.
CookieMatchStarts(h) ==
  {i \in DOMAIN h :
     /\ i + Len(S_user_role_eq) <= Len(h)
     /\ SubSeq(h, i, i + Len(S_user_role_eq) - 1) = S_user_role_eq
     /\ (i = 1 \/ ~IsWordChar(h[i - 1]))
     /\ h[i + Len(S_user_role_eq)] # ";"}

\* match[1]: the longest run of characters other than ";" after the "=".
CookieCapture(h, i) ==
  LET from == i + Len(S_user_role_eq)
      stop == {j \in from..Len(h) : h[j] = ";"}
      to   == IF stop = {} THEN Len(h)
              ELSE (CHOOSE j \in stop : \A k \in stop : j <= k) - 1
  IN SubSeq(h, from, to)

\* lines 12-14: role = match ? match[1].trim() : null
RoleFromHeader(cookieHeader) ==
  IF ~IsStr(cookieHeader) THEN Null
  ELSE LET starts == CookieMatchStarts(cookieHeader.v)
       IN IF starts = {} THEN Null
          ELSE Str(Trim(CookieCapture(cookieHeader.v,
                         CHOOSE i \in starts : \A j \in starts : i <= j)))

RoleDeniedCaseSensitive(role) == ~Truthy(role) \/ role.v # S_admin

\* lines 16 and 44: !role || role.toLowerCase() !== "admin"
RoleDenied(role) == ~Truthy(role) \/ ToLowerCase(role.v) # S_admin

NoCookieOptsKept == [path |-> P_root, maxAge |-> 60 * 60, httpOnly |-> Undef,
                     sameSite |-> Undef, secure |-> Undef]

NoCookieOpts == [path |-> P_root, maxAge |-> 0, httpOnly |-> Undef,
                 sameSite |-> Undef, secure |-> Undef]

SetCookie(name, value, opts) == [name |-> name, value |-> value, opts |-> opts]

GateNext(cookies) == [kind |-> "next", location |-> <<>>, setCookies |-> cookies,
                      ran |-> TRUE]

GateRedirectClearing(to) ==
  [kind |-> "redirect", location |-> to,
   setCookies |-> <<SetCookie("user_role", <<>>, NoCookieOpts)>>, ran |-> TRUE]

GateRedirect(to) == [kind |-> "redirect", location |-> to, setCookies |-> <<>>,
                     ran |-> TRUE]

\* The request passes to the route with no middleware involved.
GateNotRun == [kind |-> "next", location |-> <<>>, setCookies |-> <<>>,
               ran |-> FALSE]

\* middleware, variant that does not clear the cookie on "/"
MiddlewareNonClearing(req) ==
  IF StartsWith(req.pathname, P_admin)
    THEN LET role == IF Truthy(req.cookies) THEN req.cookies
                     ELSE RoleFromHeader(req.cookieHeader)
         IN IF RoleDenied(role) THEN GateRedirect(P_root) ELSE GateNext(<<>>)
    ELSE GateNext(<<>>)

MiddlewareClearingEveryRequest(req) ==
  LET clear == <<SetCookie("user_role", <<>>, NoCookieOpts)>>
  IN IF req.pathname = P_root THEN GateNext(clear)
     ELSE IF StartsWith(req.pathname, P_admin) /\ RoleDenied(req.cookies)
       THEN GateRedirect(P_root)
     ELSE GateNext(clear)

\* middleware, variant that clears the cookie on "/"
MiddlewareClearing(req) ==
  IF req.pathname = P_root
    THEN GateNext(<<SetCookie("user_role", <<>>, NoCookieOpts)>>)
  ELSE IF StartsWith(req.pathname, P_admin)
    THEN IF RoleDenied(req.cookies) THEN GateRedirect(P_root) ELSE GateNext(<<>>)
  ELSE GateNext(<<>>)

Gate(v, req) ==
  IF ~Matcher(v, req.pathname) THEN GateNotRun
  ELSE IF v = "clearing" THEN MiddlewareClearing(req)
  ELSE MiddlewareNonClearing(req)

(***************************************************************************)
(* Session Issuer: POST of src/frontend/app/api/dashboard-stats/route.ts   *)
(***************************************************************************)
\* A fixed message, kept as a one-token string.
Msg(m) == Str(<<m>>)

S_123456 == <<"1","2","3","4","5","6">>

S_password == <<"p","a","s","s","w","o","r","d">>

DEMO_DOCTOR_ID == S_123456

DEMO_PASSWORD == S_password

S_https == <<"h","t","t","p","s">>

S_httpsScheme == S_https \o <<":","/","/">>

S_httpUrl == <<"h","t","t","p",":","/","/","h","/","l">>

S_httpsUrl == S_httpsScheme \o <<"h","/","l">>

RECURSIVE NumToStr(_)
\* String(n) of a non-negative integer
NumToStr(n) ==
  IF n < 10 THEN <<DigitChars[n + 1]>>
  ELSE NumToStr(n \div 10) \o <<DigitChars[(n % 10) + 1]>>

\* String(x) of a string, number or boolean
JsString(x) ==
  CASE x.t = "string" -> x.v
    [] x.t = "number" -> NumToStr(x.v)
    [] x.t = "boolean" -> IF x.v THEN <<"t","r","u","e">> ELSE <<"f","a","l","s","e">>
    [] OTHER -> <<"?">>

\* a || b
OrElse(a, b) == IF Truthy(a) THEN a ELSE b

\* The JSON object {} and the fields the handlers read of a backend body.
EmptyData == [role |-> Undef, detail |-> Undef, access_token |-> Undef,
              refresh_token |-> Undef, token_type |-> Undef, expires_in |-> Undef]

\* response.ok
ResponseOk(status) == 200 <= status /\ status <= 299

CT_json == "application/json"

CT_jsonCharset == "application/json; charset=utf-8"

CT_html == "text/html"

CT_none == "none"

IsJsonTypeAnyDeclared(contentType) == contentType # CT_none

\* contentType?.includes("application/json")
IsJsonType(contentType) == contentType \in {CT_json, CT_jsonCharset}

LoginBody(success, role, error, data) ==
  [success |-> success, role |-> role, error |-> error,
   access_token |-> data.access_token, refresh_token |-> data.refresh_token,
   token_type |-> data.token_type, expires_in |-> data.expires_in]

\* NextResponse.json(body, {status}) with the cookies set on it and the
\* backend calls made before it.
HttpResponse(status, body, cookies, calls) ==
  [status |-> status, body |-> body, setCookies |-> cookies, calls |-> calls]

SessionCookieOpts(secure) ==
  [path |-> P_root, maxAge |-> 60 * 60 * 24, httpOnly |-> Bool(TRUE),
   sameSite |-> Str(<<"lax">>), secure |-> secure]

DemoFallbackNoCookie(calls) ==
  HttpResponse(200, LoginBody(TRUE, Str(S_Doctor), Undef, EmptyData), <<>>, calls)

DemoFallbackAdmin(calls) ==
  HttpResponse(200, LoginBody(TRUE, Str(S_Admin), Undef, EmptyData),
               <<SetCookie("user_role", S_Admin, SessionCookieOpts(Undef))>>, calls)

\* lines 119-126 and 141-148: the demo session
DemoFallback(calls) ==
  HttpResponse(200, LoginBody(TRUE, Str(S_Doctor), Undef, EmptyData),
               <<SetCookie("user_role", S_Doctor, SessionCookieOpts(Undef))>>, calls)

LoginFailureRetried(status, error, calls) ==
  HttpResponse(status, LoginBody(FALSE, Undef, error, EmptyData), <<>>, calls \o calls)

LoginFailure(status, error, calls) ==
  HttpResponse(status, LoginBody(FALSE, Undef, error, EmptyData), <<>>, calls)

\* lines 104-106
IsSecure(req) ==
  \/ StartsWith(req.url, S_httpsScheme)
  \/ req.forwardedProto = Str(S_https)

\* lines 128-132
BackendDetail(data) ==
  IF data.detail.t = "array"
    THEN IF Len(data.detail.v) = 0 THEN Undef
         ELSE IF data.detail.v[1].t = "object" THEN data.detail.v[1].v.msg
         ELSE Undef
  ELSE IF IsStr(data.detail) THEN data.detail
  ELSE Null

ErrorMsgNo422(status, detail) ==
  OrElse(detail, Msg("Incorrect ID or password."))

\* lines 133-136
ErrorMsg(status, detail) ==
  IF status = 422
    THEN OrElse(detail, Msg("Doctor ID must be exactly 6 digits and password is required."))
    ELSE OrElse(detail, Msg("Incorrect ID or password."))

IsDemoNever(doctorIdStr, passwordStr) == FALSE

IsDemoSameField(doctorIdStr, passwordStr) ==
  doctorIdStr = DEMO_DOCTOR_ID /\ passwordStr = DEMO_DOCTOR_ID

\* lines 118 and 140
IsDemo(doctorIdStr, passwordStr) ==
  doctorIdStr = DEMO_DOCTOR_ID /\ passwordStr = DEMO_PASSWORD

MissingCredentialsFalsy(doctor_id, password) ==
  ~Truthy(doctor_id) \/ ~Truthy(password)

\* line 69: !doctor_id || password === undefined
MissingCredentials(doctor_id, password) ==
  ~Truthy(doctor_id) \/ password = Undef

NormalizeRoleExact(rawRole) == IF rawRole = S_admin THEN S_Admin ELSE rawRole

\* line 95
NormalizeRole(rawRole) ==
  IF ToLowerCase(rawRole) = S_admin THEN S_Admin ELSE rawRole

\* lines 82-138, the inner try block: it returns a response, throws, or
\* falls through to line 157.
LoginTry(req, backend, doctorIdStr, passwordStr, calls) ==
  IF backend.kind = "failure" THEN [outcome |-> "throw"]
  ELSE
    LET isJson == IsJsonType(backend.contentType)
        ok     == ResponseOk(backend.status)
    IN
    IF isJson /\ ~backend.parseOk THEN [outcome |-> "throw"]
    ELSE
      LET parsed == IF isJson THEN backend.data ELSE Obj(EmptyData)
          data   == IF parsed.t = "object" THEN parsed.v ELSE EmptyData
      IN
      IF ok /\ isJson
        THEN IF parsed.t = "null" THEN [outcome |-> "throw"]
             ELSE LET rawRole == OrElse(data.role, Str(S_Doctor))
                  IN IF ~IsStr(rawRole) THEN [outcome |-> "throw"]
                     ELSE
                       LET role == NormalizeRole(rawRole.v)
                       IN [outcome |-> "return",
                           res |-> HttpResponse(200,
                                     LoginBody(TRUE, Str(role), Undef, data),
                                     <<SetCookie("user_role", role,
                                         SessionCookieOpts(Bool(IsSecure(req))))>>,
                                     calls)]
      ELSE IF ~ok
        THEN IF IsDemo(doctorIdStr, passwordStr)
               THEN [outcome |-> "return", res |-> DemoFallback(calls)]
             ELSE IF parsed.t = "null" THEN [outcome |-> "throw"]
             ELSE [outcome |-> "return",
                   res |-> LoginFailure(backend.status,
                             ErrorMsg(backend.status, BackendDetail(data)), calls)]
      ELSE [outcome |-> "fallthrough"]

\* lines 64-164
LoginPOST(req, backend) ==
  IF ~req.bodyOk
    THEN LoginFailure(500, Msg("Authentication failed"), <<>>)
  ELSE
    LET fields    == IF req.body.t = "object" THEN req.body.v
                     ELSE [doctor_id |-> Undef, password |-> Undef]
        doctor_id == fields.doctor_id
        password  == fields.password
    IN
    IF MissingCredentials(doctor_id, password)
      THEN LoginFailure(400, Msg("Doctor ID and password are required"), <<>>)
    ELSE
      LET doctorIdStr == Trim(JsString(doctor_id))
          passwordStr == IF IsStr(password) THEN password.v ELSE <<>>
          calls == <<[method |-> "POST", path |-> "/login",
                      body |-> [doctor_id |-> doctorIdStr, password |-> passwordStr]]>>
          try == LoginTry(req, backend, doctorIdStr, passwordStr, calls)
      IN
      CASE try.outcome = "return" -> try.res
        [] try.outcome = "throw" ->
             IF IsDemo(doctorIdStr, passwordStr) THEN DemoFallback(calls)
             ELSE LoginFailure(503,
                    Msg("Login service unavailable. Is the backend running on port 8000?"),
                    calls)
        [] OTHER -> LoginFailure(401, Msg("Authentication failed"), calls)

(***************************************************************************)
(* Prediction Proxy: second POST of src/frontend/app/dashboard/page.tsx    *)
(* Probabilities are in ten-thousandths.                                   *)
(***************************************************************************)
PredictBody(resistant, probability, error) ==
  [resistant |-> resistant, probability |-> probability, error |-> error]

normalizePredictionTruthy(data) ==
  IF data.t = "object" /\ data.v.resistant # Undef
    THEN PredictBody(Num(IF Truthy(data.v.resistant) THEN 1 ELSE 0),
                     IF data.v.probability.t = "number" THEN data.v.probability
                     ELSE IF data.v.confidence.t = "number" THEN data.v.confidence
                     ELSE Undef,
                     Undef)
    ELSE PredictBody(Num(0), Undef, Undef)

normalizePredictionTrueOnly(data) ==
  IF data.t = "object" /\ data.v.resistant # Undef
    THEN PredictBody(Num(IF data.v.resistant = Bool(TRUE) THEN 1 ELSE 0),
                     IF data.v.probability.t = "number" THEN data.v.probability
                     ELSE IF data.v.confidence.t = "number" THEN data.v.confidence
                     ELSE Undef,
                     Undef)
    ELSE PredictBody(Num(0), Undef, Undef)

\* lines 362-375
normalizePrediction(data) ==
  IF data.t = "object" /\ data.v.resistant # Undef
    THEN LET r == data.v.resistant
             resistant == IF r = Bool(TRUE) \/ r = Num(1) THEN 1 ELSE 0
             probability ==
               IF data.v.probability.t = "number" THEN data.v.probability
               ELSE IF data.v.confidence.t = "number" THEN data.v.confidence
               ELSE Undef
         IN PredictBody(Num(resistant), probability, Undef)
    ELSE PredictBody(Num(0), Undef, Undef)

IsDigits(s) == Len(s) > 0 /\ \A i \in DOMAIN s : s[i] \in Range(DigitChars)

RECURSIVE DigitsToNum(_)
DigitsToNum(s) ==
  IF s = <<>> THEN 0
  ELSE 10 * DigitsToNum(SubSeq(s, 1, Len(s) - 1))
       + (CHOOSE d \in 0..9 : DigitChars[d + 1] = s[Len(s)])

\* Number(x) || 0 for the values a JSON body holds (integers, digit
\* strings, booleans, null; everything else is NaN, hence 0).
NumberOrZero(x) ==
  CASE x.t = "number" -> x.v
    [] x.t = "string" -> IF IsDigits(Trim(x.v)) THEN DigitsToNum(Trim(x.v)) ELSE 0
    [] x.t = "boolean" -> IF x.v THEN 1 ELSE 0
    [] OTHER -> 0

MinOf(a, b) == IF a <= b THEN a ELSE b

\* body?.field
OptField(body, f) == IF body.t = "object" THEN body.v[f] ELSE Undef

mockPredictionAtLeast(body, random) ==
  LET age      == NumberOrZero(OptField(body, "age"))
      duration == NumberOrZero(OptField(body, "duration_days"))
      score    == 12 * age + MinOf(60 * duration, 1800)
  IN PredictBody(Num(IF score >= 1500 THEN 1 ELSE 0),
                 Num(7000 + random * 25), Undef)

\* lines 378-386.  score is kept times 3000: (age/100)*0.4 is 12*age and
\* min(duration/30, 1)*0.6 is min(60*duration, 1800); random is
\* Math.random() in hundredths.
mockPrediction(body, random) ==
  LET age      == NumberOrZero(OptField(body, "age"))
      duration == NumberOrZero(OptField(body, "duration_days"))
      score    == 12 * age + MinOf(60 * duration, 1800)
  IN PredictBody(Num(IF score > 1500 THEN 1 ELSE 0),
                 Num(7000 + random * 25), Undef)

UseBackendReplyAnyStatus(ok, isJson) == isJson

\* line 402: response.ok && isJson
UseBackendReply(ok, isJson) == ok /\ isJson

\* lines 388-422
PredictPOST(req, backend, random) ==
  IF ~req.bodyOk
    THEN HttpResponse(500, PredictBody(Undef, Undef, Msg("Unexpected token")), <<>>, <<>>)
  ELSE
    LET calls == <<[method |-> "POST", path |-> "/predict", body |-> req.body]>>
        mock  == HttpResponse(200, mockPrediction(req.body, random), <<>>, calls)
    IN
    IF backend.kind = "failure" THEN mock
    ELSE
      LET isJson == IsJsonType(backend.contentType)
          ok     == ResponseOk(backend.status)
      IN IF UseBackendReply(ok, isJson)
           THEN IF ~backend.parseOk THEN mock
                ELSE HttpResponse(200, normalizePrediction(backend.data), <<>>, calls)
         ELSE mock

(***************************************************************************)
(* Inputs                                                                  *)
(***************************************************************************)
Failure == [kind |-> "failure"]

Reply(status, contentType, parseOk, data) ==
  [kind |-> "reply", status |-> status, contentType |-> contentType,
   parseOk |-> parseOk, data |-> data]

JsonTypes == {CT_json, CT_jsonCharset}

OtherTypes == {CT_none, CT_html}

\* Every reply of a backend with the given statuses and JSON bodies, and
\* the transport failure.
BackendsOf(statuses, bodies) ==
  {Failure}
    \cup {Reply(st, ct, TRUE, Null) : st \in statuses, ct \in OtherTypes}
    \cup {Reply(st, ct, FALSE, Null) : st \in statuses, ct \in JsonTypes}
    \cup {Reply(st, ct, TRUE, d) : st \in statuses, ct \in JsonTypes, d \in bodies}

LoginStatuses == {200, 201, 401, 422, 500}

BackendRoles == {Undef, Null, Str(<<>>), Str(S_admin), Str(S_Admin), Str(S_ADMIN),
                 Str(S_aDmin), Str(S_Doctor), Str(S_Nurse), Num(5)}

S_Bad == <<"B","a","d">>

S_Short == <<"S","h","o","r","t">>

BackendDetails == {Undef, Str(<<>>), Str(S_Bad), Arr(<<>>), Arr(<<Null>>),
                   Arr(<<Obj([msg |-> Undef])>>),
                   Arr(<<Obj([msg |-> Str(S_Short)]), Obj([msg |-> Str(S_Bad)])>>)}

Tokens == [EmptyData EXCEPT !.access_token = Msg("at"), !.refresh_token = Msg("rt"),
                            !.token_type = Msg("bearer"), !.expires_in = Num(3600)]

LoginData ==
  {Null, Num(5)}
    \cup {Obj([base EXCEPT !.role = r]) : base \in {EmptyData, Tokens}, r \in BackendRoles}
    \cup {Obj([EmptyData EXCEPT !.detail = d]) : d \in BackendDetails}

LoginBackends == BackendsOf(LoginStatuses, LoginData)

DoctorIds == {Undef, Null, Str(<<>>), Num(0), Str(S_123456),
              Str(<<" ">> \o S_123456 \o <<" ">>), Num(123456), Str(<<"1">>)}

Passwords == {Undef, Null, Str(<<>>), Str(S_password), Str(<<"x">>), Num(1)}

Schemes == {[url |-> S_httpUrl, forwardedProto |-> Null],
            [url |-> S_httpsUrl, forwardedProto |-> Null],
            [url |-> S_httpUrl, forwardedProto |-> Str(S_https)]}

LoginReq(bodyOk, body, scheme) ==
  [bodyOk |-> bodyOk, body |-> body, url |-> scheme.url,
   forwardedProto |-> scheme.forwardedProto]

LoginRequests ==
  {LoginReq(FALSE, Null, sc) : sc \in Schemes}
    \cup {LoginReq(TRUE, Null, sc) : sc \in Schemes}
    \cup {LoginReq(TRUE, Obj([doctor_id |-> d, password |-> p]), sc) :
            d \in DoctorIds, p \in Passwords, sc \in Schemes}

\* The logins of the browser client of the session lifecycle.
SessionLoginRequests ==
  {LoginReq(TRUE, Obj([doctor_id |-> d, password |-> p]),
            [url |-> S_httpUrl, forwardedProto |-> Null]) :
     d \in {Str(S_123456), Str(<<"1">>)}, p \in {Undef, Str(S_password)}}

SessionBackends ==
  {Failure, Reply(200, CT_html, TRUE, Null), Reply(401, CT_json, TRUE, Obj(EmptyData))}
    \cup {Reply(200, CT_json, TRUE, Obj([EmptyData EXCEPT !.role = r])) :
            r \in {Undef, Str(S_admin), Str(S_ADMIN), Str(S_Doctor), Str(S_Nurse)}}

(***************************************************************************)
(* The browser client                                                      *)
(***************************************************************************)
RECURSIVE ApplySetCookies(_, _)
\* The cookie jar after the Set-Cookie headers of a response: Max-Age 0
\* deletes user_role, anything else replaces it.
ApplySetCookies(j, cookies) ==
  IF cookies = <<>> THEN j
  ELSE LET c == Head(cookies)
           next == IF c.name # "user_role" THEN j
                   ELSE IF c.opts.maxAge <= 0 THEN Undef
                   ELSE Str(c.value)
       IN ApplySetCookies(next, Tail(cookies))

S_otherCookie == <<"t","=","d",";"," ">>

\* The Cookie header the browser sends for its jar.
CookieHeaderOf(j, withOther) ==
  IF j = Undef
    THEN IF withOther THEN Str(<<"t","=","d">>) ELSE Null
    ELSE Str((IF withOther THEN S_otherCookie ELSE <<>>) \o S_user_role_eq \o j.v)

GateReq(pathname, cookies, cookieHeader) ==
  [pathname |-> pathname, cookies |-> cookies, cookieHeader |-> cookieHeader]

\* History of the client, kept to state properties over several requests:
\* loginSinceEntry, issued: the role of the last successful login and whether
\* it came after the last visit of "/"; pending: a redirect to follow;
\* refused: the last operation was a login the backend rejected or could not
\* be reached for; followsRefused: the last operation was a page request
\* right after such a login; denied: the cookie held when the gate last
\* redirected, until the request after the redirect is followed.
NoHist ==
  [loginSinceEntry |-> FALSE, issued |-> Undef, pending |-> FALSE,
   refused |-> FALSE, followsRefused |-> FALSE, denied |-> Undef]

None == [op |-> "none"]

Init ==
  /\ variant \in Variants
  /\ jar = Undef
  /\ hist = NoHist
  /\ last = None

\* The client posts credentials to the login route.
Login ==
  /\ ~hist.pending
  /\ \E req \in SessionLoginRequests, backend \in SessionBackends :
       LET res == LoginPOST(req, backend)
       IN /\ jar' = ApplySetCookies(jar, res.setCookies)
          /\ hist' = [hist EXCEPT
                        !.loginSinceEntry = IF res.body.success THEN TRUE ELSE @,
                        !.issued = IF res.body.success THEN res.body.role ELSE @,
                        !.refused = /\ res.calls # <<>>
                                    /\ \/ backend.kind = "failure"
                                       \/ ~ResponseOk(backend.status),
                        !.followsRefused = FALSE,
                        !.denied = Undef]
          /\ last' = [op |-> "login", req |-> req, backend |-> backend, res |-> res]
  /\ UNCHANGED variant

\* The browser requests a page with the cookie of its jar.
Navigate(pathname, withOther, op) ==
  LET req == GateReq(pathname, jar, CookieHeaderOf(jar, withOther))
      res == Gate(variant, req)
  IN /\ jar' = ApplySetCookies(jar, res.setCookies)
     /\ hist' = [hist EXCEPT
                   !.loginSinceEntry = IF pathname = P_root THEN FALSE ELSE @,
                   !.pending = (res.kind = "redirect"),
                   !.refused = FALSE,
                   !.followsRefused = hist.refused,
                   !.denied = IF res.kind = "redirect" THEN jar
                              ELSE IF op = "follow" THEN @ ELSE Undef]
     /\ last' = [op |-> op, req |-> req, res |-> res]
     /\ UNCHANGED variant

Visit ==
  /\ ~hist.pending
  /\ \E pathname \in Paths, withOther \in BOOLEAN : Navigate(pathname, withOther, "visit")

\* The browser follows the redirect of the last response.
FollowRedirect ==
  /\ hist.pending
  /\ Navigate(last.res.location, FALSE, "follow")

Next == Login \/ Visit \/ FollowRedirect

Spec == Init /\ [][Next]_vars

(***************************************************************************)
(* Each handler on its own: one invocation on any request of a bounded     *)
(* set, with any backend outcome.                                          *)
(***************************************************************************)
GateCookies == {Undef, Str(<<>>), Str(S_admin), Str(S_Admin), Str(S_ADMIN),
                Str(S_aDmin), Str(S_Doctor), Str(<<" ">> \o S_admin)}

\* Cookie headers of a request whose structured cookie list is empty.
RawHeaders ==
  {Str(S_user_role_eq \o S_admin),
   Str(S_otherCookie \o S_user_role_eq \o S_ADMIN \o <<" ">>),
   Str(S_user_role_eq \o S_Doctor),
   Str(<<"x">> \o S_user_role_eq \o S_admin),
   Str(S_user_role_eq \o <<";">> \o <<"t","=","d">>),
   Str(S_user_role_eq \o <<";"," ">> \o S_user_role_eq \o S_Admin),
   Str(S_user_role_eq \o S_aDmin \o <<";"," ","t","=","d">>),
   Str(S_user_role_eq \o <<" ">>)}

GateRequests ==
  {GateReq(p, c, CookieHeaderOf(c, o)) : p \in Paths, c \in GateCookies, o \in BOOLEAN}
    \cup {GateReq(p, c, h) : p \in Paths, c \in {Undef, Str(<<>>)}, h \in RawHeaders}

GateApply ==
  /\ last = None
  /\ \E req \in GateRequests :
       LET res == Gate(variant, req)
       IN /\ last' = [op |-> "gate", req |-> req, res |-> res]
          /\ jar' = ApplySetCookies(req.cookies, res.setCookies)
  /\ UNCHANGED <<variant, hist>>

NextGate == GateApply

SpecGate == Init /\ [][NextGate]_vars

LoginApply ==
  /\ last = None
  /\ \E req \in LoginRequests, backend \in LoginBackends :
       LET res == LoginPOST(req, backend)
       IN /\ last' = [op |-> "login", req |-> req, backend |-> backend, res |-> res]
          /\ jar' = ApplySetCookies(jar, res.setCookies)
  /\ UNCHANGED <<variant, hist>>

NextLogin == LoginApply

SpecLogin == Init /\ [][NextLogin]_vars

PredictStatuses == {200, 201, 500}

Resistants == {Undef, Null, Bool(TRUE), Bool(FALSE), Num(0), Num(1), Num(2),
               Str(<<"1">>)}

PredictData ==
  {Null, Num(5), Arr(<<>>)}
    \cup {Obj([resistant |-> r, probability |-> p, confidence |-> c]) :
            r \in Resistants,
            p \in {Undef, Num(8000), Str(<<"0",".","8">>)},
            c \in {Undef, Num(6000)}}

PredictBackends == BackendsOf(PredictStatuses, PredictData)

Ages == {Undef, Num(0), Num(50), Num(80), Str(<<"8","0">>), Str(<<"x">>)}

Durations == {Undef, Num(0), Num(15), Num(16), Num(30), Num(45), Str(<<"3","0">>)}

PredictRequests ==
  {[bodyOk |-> FALSE, body |-> Null], [bodyOk |-> TRUE, body |-> Null]}
    \cup {[bodyOk |-> TRUE, body |-> Obj([age |-> a, duration_days |-> d])] :
            a \in Ages, d \in Durations}

\* Math.random() in hundredths
Randoms == {0, 50, 99}

PredictApply ==
  /\ last = None
  /\ \E req \in PredictRequests, backend \in PredictBackends, random \in Randoms :
       last' = [op |-> "predict", req |-> req, backend |-> backend, random |-> random,
                res |-> PredictPOST(req, backend, random)]
  /\ UNCHANGED <<variant, jar, hist>>

NextPredict == PredictApply

SpecPredict == Init /\ [][NextPredict]_vars

(***************************************************************************)
(* Properties                                                              *)
(***************************************************************************)
\* "admin" in every letter case the requests carry
AnyCaseAdmin == {Str(S_admin), Str(S_Admin), Str(S_ADMIN), Str(S_aDmin)}

\* /admin and everything below it
AdminRoute(pathname) == pathname = P_admin \/ StartsWith(pathname, P_adminSlash)

\* The Cookie header agrees with the structured cookie list.
CookiesAgree(req) ==
  req.cookieHeader \in {CookieHeaderOf(req.cookies, o) : o \in BOOLEAN}

ClearsUserRole(cookies) ==
  \E i \in DOMAIN cookies :
    /\ cookies[i].name = "user_role"
    /\ cookies[i].value = <<>>
    /\ cookies[i].opts.maxAge = 0

UserRoleCookies(cookies) == {i \in DOMAIN cookies : cookies[i].name = "user_role"}

C2_EntryRouteClears ==
  (last.op \in {"visit", "follow"} /\ last.req.pathname = P_root) =>
    /\ last.res.ran
    /\ ClearsUserRole(last.res.setCookies)
    /\ jar = Undef

\* C3: a login response sets user_role exactly once when it reports
\* success:true, with status 200, and sets no cookie when it reports
\* success:false, with one of the failure statuses.
C3_CookieIffSuccess ==
  last.op = "login" =>
    IF last.res.body.success
      THEN /\ Cardinality(UserRoleCookies(last.res.setCookies)) = 1
           /\ Len(last.res.setCookies) = 1
           /\ last.res.status = 200
           /\ \/ last.backend.kind = "failure"
              \/ ~ResponseOk(last.backend.status)
              \/ last.backend.contentType \in JsonTypes
      ELSE /\ last.res.setCookies = <<>>
           /\ last.res.status \in {400, 401, 422, 500, 503}

C3_Witness ==
  /\ last.op = "login"
  /\ last.backend.kind = "reply"
  /\ last.backend.status = 201
  /\ last.res.body.success
  /\ last.res.body.role = Str(S_Nurse)
  /\ Len(last.res.setCookies) = 1
  /\ jar = Str(S_Nurse)

\* The credential fields of a login request (undefined for a body that is
\* no object).
SubmittedId(req) == IF req.body.t = "object" THEN req.body.v.doctor_id ELSE Undef

SubmittedPassword(req) == IF req.body.t = "object" THEN req.body.v.password ELSE Undef

Rejected400(res) == res.status = 400 /\ ~res.body.success /\ res.calls = <<>>

ForwardsEmptyPassword(res) ==
  /\ res.status # 400
  /\ Len(res.calls) = 1
  /\ res.calls[1].path = "/login"
  /\ res.calls[1].body.password = <<>>

\* C4 as stated: doctor_id absent or password undefined gives 400 with no
\* backend call; any present doctor_id with the empty password is forwarded.
C4_AsStated ==
  (last.op = "login" /\ last.req.bodyOk) =>
    /\ (SubmittedId(last.req) \in {Undef, Null} \/ SubmittedPassword(last.req) = Undef)
         => Rejected400(last.res)
    /\ (SubmittedId(last.req) \notin {Undef, Null} /\ SubmittedPassword(last.req) = Str(<<>>))
         => ForwardsEmptyPassword(last.res)

\* C4, amended: a doctor_id that is absent, null, the empty string or 0,
\* or an undefined password, gives 400 with success:false and no backend
\* call; a non-empty, non-zero doctor_id with the empty password is not
\* rejected and the empty password is forwarded to the backend.
C4_FalsyIdRejected ==
  (last.op = "login" /\ last.req.bodyOk) =>
    /\ (SubmittedId(last.req) \in {Undef, Null, Str(<<>>), Num(0)}
          \/ SubmittedPassword(last.req) = Undef)
         => Rejected400(last.res)
    /\ (SubmittedId(last.req) \notin {Undef, Null, Str(<<>>), Num(0)}
          /\ SubmittedPassword(last.req) = Str(<<>>))
         => ForwardsEmptyPassword(last.res)

C4_Witness ==
  /\ last.op = "login"
  /\ SubmittedId(last.req) = Str(<<"1">>)
  /\ SubmittedPassword(last.req) = Str(<<>>)
  /\ last.backend.kind = "reply"
  /\ last.res.status = 401
  /\ ForwardsEmptyPassword(last.res)

DemoPairSubmitted(req) ==
  /\ req.bodyOk
  /\ SubmittedId(req) = Str(S_123456)
  /\ SubmittedPassword(req) = Str(S_password)

BackendRejects(backend) == backend.kind = "reply" /\ ~ResponseOk(backend.status)

DoctorSession(res) ==
  /\ res.status = 200
  /\ res.body.success
  /\ res.body.role = Str(S_Doctor)
  /\ \E i \in DOMAIN res.setCookies :
       res.setCookies[i].name = "user_role" /\ res.setCookies[i].value = S_Doctor

\* C5: with the demo credential pair the answer is 200, success:true, role
\* "Doctor" and a user_role=Doctor cookie, both when the backend call fails
\* at transport level and when the backend answers any non-2xx status.
C5_DemoFallback ==
  (last.op = "login" /\ DemoPairSubmitted(last.req)
     /\ (last.backend.kind = "failure" \/ BackendRejects(last.backend)))
    => DoctorSession(last.res) /\ jar = Str(S_Doctor)

C5_Witness ==
  /\ last.op = "login"
  /\ DemoPairSubmitted(last.req)
  /\ BackendRejects(last.backend)
  /\ last.backend.status = 401
  /\ DoctorSession(last.res)

\* Credentials the handler accepts that are not the demo pair.
NonDemoSubmitted(req) ==
  /\ req.bodyOk
  /\ SubmittedId(req) \in {Str(S_123456), Str(<<"1">>)}
  /\ SubmittedPassword(req) # Undef
  /\ (SubmittedId(req) = Str(<<"1">>) \/ SubmittedPassword(req) # Str(S_password))

NonEmptyStr(x) == x.t = "string" /\ x.v # <<>>

\* The detail of a backend reply as the claim reads it: a string, or the
\* first message of an array; undefined when there is none.
StatedDetail(backend) ==
  IF backend.contentType \in JsonTypes /\ backend.parseOk /\ backend.data.t = "object"
    THEN LET d == backend.data.v.detail
         IN IF NonEmptyStr(d) THEN d
            ELSE IF d.t = "array" /\ Len(d.v) > 0 /\ d.v[1].t = "object"
                      /\ NonEmptyStr(d.v[1].v.msg)
              THEN d.v[1].v.msg
            ELSE Undef
    ELSE Undef

StatedError(backend) ==
  IF StatedDetail(backend) # Undef THEN StatedDetail(backend)
  ELSE IF backend.status = 422
    THEN Msg("Doctor ID must be exactly 6 digits and password is required.")
  ELSE Msg("Incorrect ID or password.")

RejectionPassedOn(backend, res) ==
  /\ ~res.body.success
  /\ res.status = backend.status
  /\ res.body.error = StatedError(backend)
  /\ res.setCookies = <<>>

\* C6 as stated: with non-demo credentials every non-2xx backend reply is
\* answered with success:false, the backend's status and the backend's
\* detail or the fixed message of the status.
C6_AsStated ==
  (last.op = "login" /\ NonDemoSubmitted(last.req) /\ BackendRejects(last.backend))
    => RejectionPassedOn(last.backend, last.res)

\* The body of the reply can be read: it is not declared JSON, or it
\* parses to a JSON value other than null.
BodyReadable(backend) ==
  \/ backend.contentType \notin JsonTypes
  \/ backend.parseOk /\ backend.data # Null

\* C6, amended: with non-demo credentials every non-2xx backend reply whose
\* body is not declared JSON, or parses to a JSON value other than null,
\* is answered with success:false, the backend's status, and as error the
\* backend's non-empty detail (a string, or the first message of an array),
\* else the 6-digit message for 422 and "Incorrect ID or password."
\* otherwise.
C6_ReadableRejection ==
  (last.op = "login" /\ NonDemoSubmitted(last.req) /\ BackendRejects(last.backend)
     /\ BodyReadable(last.backend))
    => RejectionPassedOn(last.backend, last.res)

C6_Witness ==
  /\ last.op = "login"
  /\ NonDemoSubmitted(last.req)
  /\ last.backend.kind = "reply"
  /\ last.backend.status = 422
  /\ last.backend.parseOk
  /\ last.backend.data = Obj(EmptyData)
  /\ last.res.status = 422
  /\ last.res.body.error
       = Msg("Doctor ID must be exactly 6 digits and password is required.")

\* C7: the client holds a user_role cookie only if it logged in
\* successfully after its last visit of the entry route, and the cookie is
\* then the role the most recent successful login issued.
C7_CookieLifecycle ==
  jar # Undef => (hist.loginSinceEntry /\ jar = hist.issued)

AdminLogin(l) ==
  /\ l.op = "login"
  /\ l.backend.kind = "reply"
  /\ ResponseOk(l.backend.status)
  /\ l.backend.contentType \in JsonTypes
  /\ l.backend.data.t = "object"
  /\ l.backend.data.v.role \in AnyCaseAdmin
  /\ l.res.body.success

IsPageRequest(l) == l.op \in {"visit", "follow"}

\* C8: an admin-route request that directly follows a successful login
\* with a backend role of admin (any letter case) is let through; and no
\* response of the gate to a request other than "/" sets a cookie, so the
\* client's cookie is the same after such a request as before.
C8_AdminSessionPasses ==
  [][/\ (AdminLogin(last) /\ IsPageRequest(last') /\ AdminRoute(last'.req.pathname))
         => (last'.res.kind = "next" /\ last'.res.ran)
     /\ (IsPageRequest(last') /\ last'.req.pathname # P_root)
         => (last'.res.setCookies = <<>> /\ jar' = jar)]_vars

C8_Witness ==
  /\ last.op = "visit"
  /\ AdminRoute(last.req.pathname)
  /\ last.res.ran
  /\ last.res.kind = "next"
  /\ hist.loginSinceEntry
  /\ hist.issued = Str(S_Admin)
  /\ jar = Str(S_Admin)

\* The prediction handler answered from a backend body it parsed.
AnsweredFromBackend(l) ==
  /\ l.op = "predict"
  /\ l.req.bodyOk
  /\ l.backend.kind = "reply"
  /\ ResponseOk(l.backend.status)
  /\ l.backend.contentType \in JsonTypes
  /\ l.backend.parseOk

StatedResistant(data) ==
  IF data.t = "object" /\ data.v.resistant \in {Bool(TRUE), Num(1)} THEN Num(1) ELSE Num(0)

StatedProbability(data) ==
  IF data.t # "object" THEN Undef
  ELSE IF data.v.probability.t = "number" THEN data.v.probability
  ELSE IF data.v.confidence.t = "number" THEN data.v.confidence
  ELSE Undef

HasResistant(data) == data.t = "object" /\ data.v.resistant # Undef

\* C9 as stated: every 2xx JSON body is normalized to resistant 1 for true
\* or 1 and 0 otherwise, with the backend's numeric probability, else its
\* numeric confidence, else none.
C9_AsStated ==
  AnsweredFromBackend(last) =>
    /\ last.res.body.resistant = StatedResistant(last.backend.data)
    /\ last.res.body.probability = StatedProbability(last.backend.data)
    /\ last.res.body.resistant \in {Num(0), Num(1)}

\* C9, amended: resistant is 1 when the backend's resistant is true or 1
\* and 0 otherwise, always 0 or 1; the probability is the backend's
\* numeric probability, else its numeric confidence, else absent, when the
\* body is an object with a resistant field, and absent for every other
\* body.
C9_NormalizedWhenResistantPresent ==
  AnsweredFromBackend(last) =>
    /\ last.res.body.resistant = StatedResistant(last.backend.data)
    /\ last.res.body.probability =
         IF HasResistant(last.backend.data)
           THEN StatedProbability(last.backend.data) ELSE Undef
    /\ last.res.body.resistant \in {Num(0), Num(1)}

C9_Witness ==
  /\ AnsweredFromBackend(last)
  /\ last.backend.data =
       Obj([resistant |-> Bool(TRUE), probability |-> Undef, confidence |-> Num(6000)])
  /\ last.res.body.resistant = Num(1)
  /\ last.res.body.probability = Num(6000)

\* C10: with a parseable request body the prediction handler answers 200;
\* the body is the mock predictor's output when the backend answers
\* non-2xx, or 2xx without a JSON content type, or the call fails, and the
\* normalized backend body for a 2xx JSON reply that parses.
C10_MockFallback ==
  (last.op = "predict" /\ last.req.bodyOk) =>
    /\ last.res.status = 200
    /\ IF AnsweredFromBackend(last)
         THEN last.res.body = normalizePrediction(last.backend.data)
         ELSE /\ last.res.body = mockPrediction(last.req.body, last.random)
              /\ last.res.body.probability.v \in 7000..9499

C10_Witness ==
  /\ last.op = "predict"
  /\ last.req.bodyOk
  /\ last.backend.kind = "reply"
  /\ last.backend.status = 500
  /\ last.backend.contentType = CT_json
  /\ last.backend.parseOk
  /\ last.backend.data.t = "object"
  /\ last.res.status = 200
  /\ last.res.body = mockPrediction(last.req.body, last.random)
  /\ last.res.body # normalizePrediction(last.backend.data)

(***************************************************************************)
(* The mock predictor on its own, over ranges of age and duration.         *)
(***************************************************************************)
MaxAge == 126

MaxDuration == 31

S_80 == <<"8","0">>

S_30 == <<"3","0">>

MockAges == {Num(a) : a \in 0..MaxAge} \cup {Undef, Null, Str(S_80), Str(<<"x">>)}

MockDurations ==
  {Num(d) : d \in 0..MaxDuration} \cup {Undef, Null, Str(S_30), Str(<<"x">>)}

\* Request bodies with a field the mock does not read.
MockBodies ==
  {Null}
    \cup {Obj([age |-> a, duration_days |-> d, weight_kg |-> w]) :
            a \in MockAges, d \in MockDurations, w \in {Undef, Num(70)}}

MockApply ==
  /\ last = None
  /\ \E body \in MockBodies, random \in Randoms :
       last' = [op |-> "mock", body |-> body, random |-> random,
                res |-> mockPrediction(body, random)]
  /\ UNCHANGED <<variant, jar, hist>>

NextMock == MockApply

SpecMock == Init /\ [][NextMock]_vars

\* The number the claim reads in a field: a number is itself, a string of
\* digits its value, a missing or non-numeric field 0.
StatedNumber(x) ==
  IF x.t = "number" THEN x.v
  ELSE IF x = Str(S_80) THEN 80
  ELSE IF x = Str(S_30) THEN 30
  ELSE 0

StatedAge(body) == IF body.t = "object" THEN StatedNumber(body.v.age) ELSE 0

StatedDuration(body) ==
  IF body.t = "object" THEN StatedNumber(body.v.duration_days) ELSE 0

\* C11: the mock's resistant is 1 exactly when
\* 12*age + 60*min(duration_days, 30) > 1500, whatever the other fields of
\* the body are, with a missing or non-numeric age or duration read as 0;
\* its probability lies in [0.70, 0.95).
C11_MockScore ==
  last.op = "mock" =>
    /\ last.res.resistant =
         Num(IF 12 * StatedAge(last.body)
                  + 60 * MinOf(StatedDuration(last.body), 30) > 1500
               THEN 1 ELSE 0)
    /\ last.res.probability.t = "number"
    /\ 7000 <= last.res.probability.v
    /\ last.res.probability.v < 9500

C11_Witness ==
  /\ last.op = "mock"
  /\ last.body.t = "object"
  /\ last.body.v.age = Num(80)
  /\ last.body.v.duration_days = Num(30)
  /\ last.body.v.weight_kg = Num(70)
  /\ last.res.resistant = Num(1)

(***************************************************************************)
(* Resource Proxy: GET, POST and PUT of                                    *)
(* src/frontend/app/dashboard/page.tsx (lines 243-355)                     *)
(***************************************************************************)
forwardAuthHeadersNoCookie(req) ==
  [contentType |-> "application/json",
   authorization |-> IF Truthy(req.authorization) THEN req.authorization ELSE Undef,
   cookie |-> Undef]

\* lines 248-257
forwardAuthHeaders(req) ==
  [contentType |-> "application/json",
   authorization |-> IF Truthy(req.authorization) THEN req.authorization ELSE Undef,
   cookie |-> IF Truthy(req.cookie) THEN req.cookie ELSE Undef]

S_doctor == <<"d","o","c","t","o","r">>

S_hospital == <<"h","o","s","p","i","t","a","l">>

EndpointAnyCase(type) ==
  IF IsStr(type) /\ ToLowerCase(type.v) = S_doctor THEN "doctors" ELSE "hospitals"

\* type === "doctor" ? "doctors" : "hospitals"
Endpoint(type) == IF type = Str(S_doctor) THEN "doctors" ELSE "hospitals"

\* `${API_BASE}/admin/${endpoint}`
CollectionUrl(endpoint) == <<"API_BASE", "/admin/", endpoint>>

\* `${API_BASE}/admin/doctors/${pathId}`
DoctorUrl(pathId) == <<"API_BASE", "/admin/", "doctors", "/">> \o JsString(pathId)

BackendCall(method, url, headers, body) ==
  [method |-> method, path |-> url, headers |-> headers, body |-> body]

\* The JSON object {}
EmptyJson == Obj([detail |-> Undef])

ErrorJsonNoMessage(message) == Obj([error |-> Undef])

ErrorJson(message) == Obj([error |-> message])

AdminResponseOk(status, data, calls) == HttpResponse(200, data, <<>>, calls)

\* NextResponse.json(data, {status}) of the admin handlers
AdminResponse(status, data, calls) == HttpResponse(status, data, <<>>, calls)

\* a ?? b
Nullish(a, b) == IF a.t \in {"undefined", "null"} THEN b ELSE a

\* lines 278-282: one record of data.map(...); a primitive has no fields
NormalizeDoctor(d) ==
  IF d.t = "object"
    THEN Obj([d.v EXCEPT !.doctor_id = Nullish(d.v.doctor_id, d.v.id),
                         !.id = d.v.id])
    ELSE Obj([id |-> Undef, doctor_id |-> Undef, name |-> Undef])

FetchFailedMessage(type) ==
  Str(<<"Failed to fetch ">> \o type.v \o <<"s. Is the backend running at ", "API_BASE", "?">>)

\* lines 259-293
AdminGET(req, backend) ==
  IF ~Truthy(req.type)
    THEN AdminResponse(400, ErrorJson(Msg("Type parameter required")), <<>>)
  ELSE
    LET calls  == <<BackendCall("GET", CollectionUrl(Endpoint(req.type)),
                                forwardAuthHeaders(req), Undef)>>
        failed == AdminResponse(500, ErrorJson(FetchFailedMessage(req.type)), calls)
    IN
    IF backend.kind = "failure" THEN failed
    ELSE
      LET data == IF backend.parseOk THEN backend.data ELSE EmptyJson
      IN
      IF ~ResponseOk(backend.status) THEN AdminResponse(backend.status, data, calls)
      ELSE IF req.type = Str(S_doctor) /\ data.t = "array"
        THEN IF \E i \in DOMAIN data.v : data.v[i].t \in {"null", "undefined"}
               THEN failed
               ELSE AdminResponse(200,
                      Arr([i \in DOMAIN data.v |-> NormalizeDoctor(data.v[i])]), calls)
      ELSE AdminResponse(200, data, calls)

\* The fields of a body other than those named, as JSON.stringify sends
\* them (an undefined field is left out).
RestOf(fields, named) == [f \in (DOMAIN fields) \ named |-> fields[f]]

\* const { type, ...data } = body: undefined for a primitive body
BodyField(body, f) == IF body.t = "object" THEN body.v[f] ELSE Undef

BodyRestTypeOnly(body, named) ==
  IF body.t = "object" THEN Obj(RestOf(body.v, {"type"})) ELSE EmptyJson

BodyRest(body, named) ==
  IF body.t = "object" THEN Obj(RestOf(body.v, named)) ELSE EmptyJson

\* Lines 305-317 and 338-350: the call and the reply passed on.
AdminForward(call, backend, failed) ==
  IF backend.kind = "failure" \/ ~backend.parseOk THEN failed
  ELSE IF ~ResponseOk(backend.status)
    THEN AdminResponse(backend.status, backend.data, <<call>>)
  ELSE AdminResponse(200, backend.data, <<call>>)

CreateFailedBadGateway(calls) ==
  AdminResponse(502, ErrorJson(Msg("Bad gateway")), calls)

CreateFailed(calls) ==
  AdminResponse(500, ErrorJson(Msg("Failed to create resource")), calls)

UpdateFailed(calls) ==
  AdminResponse(500, ErrorJson(Msg("Failed to update resource")), calls)

\* lines 295-322
AdminPOST(req, backend) ==
  IF ~req.bodyOk \/ req.body.t \in {"null", "undefined"} THEN CreateFailed(<<>>)
  ELSE
    LET type == BodyField(req.body, "type")
    IN IF ~Truthy(type)
         THEN AdminResponse(400, ErrorJson(Msg("Type field required")), <<>>)
         ELSE LET call == BackendCall("POST", CollectionUrl(Endpoint(type)),
                                      forwardAuthHeaders(req),
                                      BodyRest(req.body, {"type"}))
              IN AdminForward(call, backend, CreateFailed(<<call>>))

PathIdOrDoctorId(id, doctorId) == IF Truthy(id) THEN id ELSE doctorId

\* line 333: id != null ? String(id) : doctorId
PathId(id, doctorId) ==
  IF id.t \notin {"undefined", "null"} THEN Str(JsString(id)) ELSE doctorId

\* lines 324-355
AdminPUT(req, backend) ==
  IF ~req.bodyOk \/ req.body.t \in {"null", "undefined"} THEN UpdateFailed(<<>>)
  ELSE
    LET type   == BodyField(req.body, "type")
        pathId == PathId(BodyField(req.body, "id"), BodyField(req.body, "doctorId"))
    IN IF ~Truthy(type)
         THEN AdminResponse(400, ErrorJson(Msg("Type field required")), <<>>)
       ELSE IF ~Truthy(pathId)
         THEN AdminResponse(400, ErrorJson(Msg("id or doctorId required")), <<>>)
       ELSE LET call == BackendCall("PUT", DoctorUrl(pathId),
                                    forwardAuthHeaders(req),
                                    BodyRest(req.body, {"type", "doctorId", "id"}))
            IN AdminForward(call, backend, UpdateFailed(<<call>>))

(***************************************************************************)
(* Dashboard statistics: GET of                                            *)
(* src/frontend/app/api/dashboard-stats/route.ts (lines 3-56)              *)
(* Averages are in tenths.                                                 *)
(***************************************************************************)
StatsJson(checks, resistant, notResistant, top, average) ==
  Obj([checksThisWeek |-> checks, resistantCount |-> resistant,
       notResistantCount |-> notResistant, topAntibiotics |-> top,
       averageAge |-> average])

\* lines 44-54
MockStats ==
  StatsJson(Num(145), Num(58), Num(87),
            Arr(<<Obj([name |-> Msg("Amoxicillin"), count |-> Num(45)]),
                  Obj([name |-> Msg("Ciprofloxacin"), count |-> Num(38)]),
                  Obj([name |-> Msg("Vancomycin"), count |-> Num(32)])>>),
            Num(523))

\* lines 3-56
StatsGET(backend) ==
  LET calls == <<BackendCall("GET", <<"API_BASE", "/dashboard-stats">>,
                             [contentType |-> "application/json"], Undef)>>
      mock  == HttpResponse(200, MockStats, <<>>, calls)
  IN IF backend.kind = "failure" THEN mock
     ELSE IF ~ResponseOk(backend.status) THEN mock
     ELSE IF ~backend.parseOk \/ backend.data.t \in {"null", "undefined"} THEN mock
     ELSE LET d == backend.data
          IN HttpResponse(200,
               StatsJson(OrElse(BodyField(d, "checks_this_week"), Num(0)),
                         OrElse(BodyField(d, "resistant_count"), Num(0)),
                         OrElse(BodyField(d, "not_resistant_count"), Num(0)),
                         OrElse(BodyField(d, "top_antibiotics"), Arr(<<>>)),
                         OrElse(BodyField(d, "average_age"), Num(0))),
               <<>>, calls)

(***************************************************************************)
(* Inputs of the admin and statistics handlers                             *)
(***************************************************************************)
AdminStatuses == {200, 201, 409}

DoctorRecords ==
  {Obj([id |-> i, doctor_id |-> d, name |-> Msg("A")]) :
     i \in {Undef, Null, Num(5), Str(<<"5">>)},
     d \in {Undef, Null, Str(S_123456)}}

AdminData ==
  {Null, EmptyJson, Obj([detail |-> Msg("Doctor ID already exists")]),
   Arr(<<>>), Arr(<<Null>>), Arr(<<Num(7)>>),
   Arr(<<Obj([id |-> Num(5), doctor_id |-> Undef, name |-> Msg("A")]),
         Obj([id |-> Undef, doctor_id |-> Undef, name |-> Msg("B")])>>),
   Obj([id |-> Num(5), doctor_id |-> Str(S_123456), name |-> Msg("A")])}
    \cup {Arr(<<r>>) : r \in DoctorRecords}

\* response.json() is tried on every reply, whatever its content type.
AdminBackends ==
  {Failure}
    \cup {Reply(st, CT_html, FALSE, Null) : st \in AdminStatuses}
    \cup {Reply(st, CT_json, TRUE, d) : st \in AdminStatuses, d \in AdminData}

S_bearer == <<"B","e","a","r","e","r"," ","t">>

AdminHeaders ==
  {[authorization |-> a, cookie |-> c] :
     a \in {Null, Str(<<>>), Str(S_bearer)},
     c \in {Null, Str(S_user_role_eq \o S_Admin)}}

AdminTypes ==
  {Null, Str(<<>>), Str(S_doctor), Str(S_hospital), Str(<<"x">>),
   Str(<<"D">> \o Tail(S_doctor))}

AdminGetRequests ==
  {[type |-> t, authorization |-> h.authorization, cookie |-> h.cookie] :
     t \in AdminTypes, h \in AdminHeaders}

AdminBodyReq(bodyOk, body, h) ==
  [bodyOk |-> bodyOk, body |-> body, authorization |-> h.authorization,
   cookie |-> h.cookie]

AdminBodyTypes == {Undef, Str(<<>>), Str(S_doctor), Str(S_hospital)}

AdminPostRequests ==
  {AdminBodyReq(FALSE, Null, h) : h \in AdminHeaders}
    \cup {AdminBodyReq(TRUE, b, h) : b \in {Null, Num(5)}, h \in AdminHeaders}
    \cup {AdminBodyReq(TRUE,
            Obj([type |-> t, id |-> Undef, doctorId |-> Undef, doctor_id |-> d,
                 name |-> n]), h) :
            t \in AdminBodyTypes, d \in {Undef, Str(S_123456)},
            n \in {Undef, Msg("A")}, h \in AdminHeaders}

AdminPutRequests ==
  {AdminBodyReq(FALSE, Null, h) : h \in AdminHeaders}
    \cup {AdminBodyReq(TRUE, b, h) : b \in {Null, Num(5)}, h \in AdminHeaders}
    \cup {AdminBodyReq(TRUE,
            Obj([type |-> t, id |-> i, doctorId |-> d, status |-> st]), h) :
            t \in AdminBodyTypes,
            i \in {Undef, Null, Str(<<>>), Num(0), Num(5), Str(<<"5">>)},
            d \in {Undef, Str(<<>>), Str(S_123456), Num(123456)},
            st \in {Undef, Msg("Suspended")}, h \in AdminHeaders}

StatsData ==
  {Null, Num(5)}
    \cup {Obj([checks_this_week |-> c, resistant_count |-> r,
               not_resistant_count |-> Num(3), top_antibiotics |-> t,
               average_age |-> a]) :
            c \in {Undef, Num(0), Num(12)}, r \in {Undef, Num(4)},
            t \in {Undef, Arr(<<>>), Arr(<<Obj([name |-> Msg("Amoxicillin"), count |-> Num(2)])>>)},
            a \in {Undef, Null, Num(487)}}

StatsBackends == BackendsOf(AdminStatuses, StatsData)

AdminGetApply ==
  /\ last = None
  /\ \E req \in AdminGetRequests, backend \in AdminBackends :
       last' = [op |-> "adminGet", req |-> req, backend |-> backend,
                res |-> AdminGET(req, backend)]
  /\ UNCHANGED <<variant, jar, hist>>

AdminPostApply ==
  /\ last = None
  /\ \E req \in AdminPostRequests, backend \in AdminBackends :
       last' = [op |-> "adminPost", req |-> req, backend |-> backend,
                res |-> AdminPOST(req, backend)]
  /\ UNCHANGED <<variant, jar, hist>>

AdminPutApply ==
  /\ last = None
  /\ \E req \in AdminPutRequests, backend \in AdminBackends :
       last' = [op |-> "adminPut", req |-> req, backend |-> backend,
                res |-> AdminPUT(req, backend)]
  /\ UNCHANGED <<variant, jar, hist>>

StatsApply ==
  /\ last = None
  /\ \E backend \in StatsBackends :
       last' = [op |-> "stats", backend |-> backend, res |-> StatsGET(backend)]
  /\ UNCHANGED <<variant, jar, hist>>

NextAdmin == AdminGetApply \/ AdminPostApply \/ AdminPutApply

SpecAdmin == Init /\ [][NextAdmin]_vars

NextHandlers ==
  \/ LoginApply
  \/ PredictApply
  \/ AdminGetApply
  \/ AdminPostApply
  \/ AdminPutApply
  \/ StatsApply

SpecHandlers == Init /\ [][NextHandlers]_vars

(***************************************************************************)
(* Concurrent invocations.  A route handler is an async function: it       *)
(* reads its request, awaits fetch, and builds its response from its own   *)
(* locals; two invocations interleave at the await.                        *)
(***************************************************************************)
Slots == {1, 2}

\* The handler of an invocation applied to what the invocation holds.
Invoke(handler, req, backend, random) ==
  CASE handler = "login"     -> LoginPOST(req, backend)
    [] handler = "predict"   -> PredictPOST(req, backend, random)
    [] handler = "adminGet"  -> AdminGET(req, backend)
    [] handler = "adminPost" -> AdminPOST(req, backend)
    [] handler = "adminPut"  -> AdminPUT(req, backend)
    [] handler = "stats"     -> StatsGET(backend)

NoHeaders == [authorization |-> Null, cookie |-> Null]

ConcJobs ==
  {[handler |-> "login", req |-> r] : r \in SessionLoginRequests}
    \cup {[handler |-> "predict", req |-> r] :
            r \in {[bodyOk |-> FALSE, body |-> Null],
                   [bodyOk |-> TRUE,
                    body |-> Obj([age |-> Num(80), duration_days |-> Num(30)])]}}
    \cup {[handler |-> "adminGet",
           req |-> [type |-> t, authorization |-> Null, cookie |-> Null]] :
            t \in {Null, Str(S_doctor)}}
    \cup {[handler |-> "adminPost",
           req |-> AdminBodyReq(TRUE,
                     Obj([type |-> Str(S_doctor), id |-> Undef, doctorId |-> Undef,
                          doctor_id |-> Str(S_123456), name |-> Msg("A")]),
                     NoHeaders)],
          [handler |-> "adminPut",
           req |-> AdminBodyReq(TRUE,
                     Obj([type |-> Str(S_doctor), id |-> Num(5), doctorId |-> Undef,
                          status |-> Msg("Suspended")]),
                     NoHeaders)],
          [handler |-> "stats", req |-> Undef]}

ConcBackends(handler) ==
  CASE handler = "login" -> SessionBackends
    [] handler = "predict" ->
         {Failure, Reply(500, CT_html, TRUE, Null),
          Reply(200, CT_json, TRUE,
                Obj([resistant |-> Bool(TRUE), probability |-> Num(8000),
                     confidence |-> Undef]))}
    [] handler = "stats" ->
         {Failure,
          Reply(200, CT_json, TRUE,
                Obj([checks_this_week |-> Num(12), resistant_count |-> Num(4),
                     not_resistant_count |-> Num(3), top_antibiotics |-> Undef,
                     average_age |-> Num(487)]))}
    [] OTHER ->
         {Failure,
          Reply(409, CT_json, TRUE, Obj([detail |-> Msg("Doctor ID already exists")])),
          Reply(201, CT_json, TRUE,
                Arr(<<Obj([id |-> Num(5), doctor_id |-> Undef, name |-> Msg("A")])>>))}

NoBackend == [kind |-> "none"]

IdleSlot ==
  [pc |-> "idle", handler |-> "none", req |-> Undef, backend |-> NoBackend,
   random |-> 0, res |-> Undef]

SlotsOf(l) == IF l = None THEN [i \in Slots |-> IdleSlot] ELSE l.slots

Concurrent(slots) == [op |-> "concurrent", slots |-> slots]

OtherRequest(slots, i) ==
  IF slots[3 - i].handler = slots[i].handler THEN slots[3 - i].req ELSE slots[i].req

\* const body = await request.json(), new URL(request.url): the request an
\* invocation works on is a local of that invocation.
OwnRequest(slots, i) == slots[i].req

\* An invocation starts: it answers at once when it returns before its
\* fetch, otherwise it awaits the backend.
Receive(i) ==
  /\ last = None \/ last.op = "concurrent"
  /\ SlotsOf(last)[i].pc = "idle"
  /\ \E job \in ConcJobs :
       LET early == Invoke(job.handler, job.req, Failure, 0)
           slot  == [IdleSlot EXCEPT !.handler = job.handler, !.req = job.req]
       IN last' = Concurrent([SlotsOf(last) EXCEPT ![i] =
                    IF early.calls = <<>>
                      THEN [slot EXCEPT !.pc = "done", !.res = early]
                      ELSE [slot EXCEPT !.pc = "awaiting"]])
  /\ UNCHANGED <<variant, jar, hist>>

\* The fetch of an awaiting invocation settles and the invocation answers.
Settle(i) ==
  /\ last # None
  /\ last.op = "concurrent"
  /\ last.slots[i].pc = "awaiting"
  /\ LET slot == last.slots[i]
     IN \E backend \in ConcBackends(slot.handler),
           random \in IF slot.handler = "predict" THEN Randoms ELSE {0} :
          last' = Concurrent([last.slots EXCEPT ![i] =
                    [slot EXCEPT !.pc = "done", !.backend = backend,
                                 !.random = random,
                                 !.res = Invoke(slot.handler, OwnRequest(last.slots, i),
                                                backend, random)]])
  /\ UNCHANGED <<variant, jar, hist>>

NextConcurrent ==
  \/ \E i \in Slots : Receive(i)
  \/ \E i \in Slots : Settle(i)

SpecConcurrent == Init /\ [][NextConcurrent]_vars

(***************************************************************************)
(* Properties of the Resource Proxy                                        *)
(***************************************************************************)
Populated(x) == x.t \notin {"undefined", "null"}

DoctorListFetched ==
  /\ last # None
  /\ last.op = "adminGet"
  /\ last.req.type = Str(S_doctor)
  /\ last.backend.kind = "reply"
  /\ ResponseOk(last.backend.status)
  /\ last.backend.parseOk
  /\ last.backend.data.t = "array"
  /\ \A i \in DOMAIN last.backend.data.v : last.backend.data.v[i].t = "object"

\* C12: for admin GET with type=doctor and a backend 2xx array reply, every
\* returned record has both id and doctor_id populated whenever the backend
\* record carries at least one of them, and every other field is unchanged.
C12_BothKeysPopulated ==
  DoctorListFetched =>
    /\ last.res.status = 200
    /\ last.res.body.t = "array"
    /\ DOMAIN last.res.body.v = DOMAIN last.backend.data.v
    /\ \A i \in DOMAIN last.backend.data.v :
         LET d == last.backend.data.v[i].v
             r == last.res.body.v[i].v
         IN /\ r.name = d.name
            /\ (Populated(d.id) \/ Populated(d.doctor_id)) =>
                 (Populated(r.id) /\ Populated(r.doctor_id))

PutWithObjectBody ==
  /\ last # None
  /\ last.op = "adminPut"
  /\ last.req.bodyOk
  /\ last.req.body.t = "object"

PutField(f) == last.req.body.v[f]

RejectedByHandler == last.res.status = 400 /\ last.res.calls = <<>>

ForwardedOnce == Len(last.res.calls) = 1

\* C13 as stated: admin PUT answers 400 without any backend call when type
\* is missing or neither id nor doctorId is present, and forwards the request
\* (no 400 of its own) whenever type and at least one of id/doctorId are
\* present.
C13_AsStated ==
  PutWithObjectBody =>
    IF Populated(PutField("type"))
         /\ (Populated(PutField("id")) \/ Populated(PutField("doctorId")))
      THEN ForwardedOnce /\ ~RejectedByHandler
      ELSE RejectedByHandler

\* The path segment is empty or missing: id is the empty string, or id is
\* absent (or null) and doctorId is falsy.
NoPathSegment ==
  \/ PutField("id") = Str(<<>>)
  \/ ~Populated(PutField("id")) /\ ~Truthy(PutField("doctorId"))

\* C13: admin PUT with a JSON object body answers 400 without any backend
\* call exactly when type is falsy, or id is the empty string, or id is
\* absent or null and doctorId is falsy; otherwise it makes one backend call,
\* to /admin/doctors/<String(id)> when id is given and to
\* /admin/doctors/<doctorId> otherwise.
C13_PutPathSegment ==
  PutWithObjectBody =>
    IF ~Truthy(PutField("type")) \/ NoPathSegment
      THEN RejectedByHandler
      ELSE /\ ForwardedOnce
           /\ last.res.calls[1].method = "PUT"
           /\ last.res.calls[1].path =
                <<"API_BASE", "/admin/", "doctors", "/">>
                  \o JsString(IF Populated(PutField("id"))
                                THEN PutField("id") ELSE PutField("doctorId"))

C13_Witness ==
  /\ PutWithObjectBody
  /\ PutField("type") = Str(S_doctor)
  /\ PutField("id") = Str(<<>>)
  /\ PutField("doctorId") = Str(S_123456)
  /\ RejectedByHandler

(***************************************************************************)
(* Properties of the Session Issuer, continued                             *)
(***************************************************************************)
\* The backend accepted the login with a JSON object whose role is absent,
\* null or a string, and the request got as far as the backend.
BackendAccepted ==
  /\ last # None
  /\ last.op = "login"
  /\ Len(last.res.calls) = 1
  /\ last.backend.kind = "reply"
  /\ ResponseOk(last.backend.status)
  /\ last.backend.contentType \in JsonTypes
  /\ last.backend.parseOk
  /\ last.backend.data.t = "object"
  /\ last.backend.data.v.role.t \in {"undefined", "null", "string"}

StatedRole(role) ==
  IF role.t \in {"undefined", "null"} \/ role = Str(<<>>) THEN S_Doctor
  ELSE IF role \in AnyCaseAdmin THEN S_Admin
  ELSE role.v

RequestIsHttps(req) ==
  StartsWith(req.url, S_httpsScheme) \/ req.forwardedProto = Str(S_https)

\* C15: every user_role cookie set by the Session Issuer, on backend success
\* and in both demo fallbacks, is httpOnly, sameSite=lax, path "/", with a
\* max-age of 24 hours, and carries the secure flag whenever the inbound
\* request is HTTPS.
C15_CookieAttributes ==
  (last # None /\ last.op = "login") =>
    \A i \in UserRoleCookies(last.res.setCookies) :
      LET opts == last.res.setCookies[i].opts
      IN /\ opts.httpOnly = Bool(TRUE)
         /\ opts.sameSite = Str(<<"lax">>)
         /\ opts.path = P_root
         /\ opts.maxAge = 24 * 60 * 60
         /\ RequestIsHttps(last.req) => opts.secure = Bool(TRUE)

(***************************************************************************)
(* Properties of all handlers                                              *)
(***************************************************************************)
\* The handler called the backend and the call failed at transport level.
TransportFailed ==
  /\ last # None
  /\ last.op \in {"login", "predict", "adminGet", "adminPost", "adminPut", "stats"}
  /\ last.backend.kind = "failure"
  /\ last.res.calls # <<>>

\* The credentials as sent to the backend are not the demo pair.
SentNonDemo(call) ==
  ~(call.body.doctor_id = S_123456 /\ call.body.password = S_password)

ErrorOf(res) == IF res.body.t = "object" THEN res.body.v.error ELSE Undef

\* C16: when the backend call fails at transport level every handler still
\* answers: login with non-demo credentials answers 503 with a "Login
\* service unavailable" error, predict answers 200 with a mock prediction,
\* and each admin handler answers 500 with the error message of its
\* operation.
C16_TransportFailure ==
  TransportFailed =>
    CASE last.op = "login" ->
           SentNonDemo(last.res.calls[1]) =>
             /\ last.res.status = 503
             /\ ~last.res.body.success
             /\ last.res.body.error =
                  Msg("Login service unavailable. Is the backend running on port 8000?")
             /\ last.res.setCookies = <<>>
      [] last.op = "predict" ->
           /\ last.res.status = 200
           /\ last.res.body.resistant \in {Num(0), Num(1)}
           /\ last.res.body.probability.v \in 7000..9499
           /\ last.res.body = mockPrediction(last.req.body, last.random)
      [] last.op = "adminGet" ->
           /\ last.res.status = 500
           /\ ErrorOf(last.res).t = "string"
           /\ ErrorOf(last.res).v[1] = "Failed to fetch "
      [] last.op = "adminPost" ->
           /\ last.res.status = 500
           /\ ErrorOf(last.res) = Msg("Failed to create resource")
      [] last.op = "adminPut" ->
           /\ last.res.status = 500
           /\ ErrorOf(last.res) = Msg("Failed to update resource")
      [] last.op = "stats" -> last.res.status = 200

C16_Witness ==
  /\ TransportFailed
  /\ last.op = "adminPost"
  /\ last.res.status = 500
  /\ ErrorOf(last.res) = Msg("Failed to create resource")
  /\ Len(last.res.calls) = 1

\* An admin handler called the backend and got a reply.
AdminReplied ==
  /\ last # None
  /\ last.op \in {"adminGet", "adminPost", "adminPut"}
  /\ last.backend.kind = "reply"
  /\ last.res.calls # <<>>

\* The reply the doctor normalization applies to.
DoctorArrayReply ==
  /\ last.op = "adminGet"
  /\ last.req.type = Str(S_doctor)
  /\ ResponseOk(last.backend.status)
  /\ last.backend.parseOk
  /\ last.backend.data.t = "array"

\* C17 as stated: for admin GET, POST and PUT the response carries the
\* backend's HTTP status and body unchanged for every backend reply, 2xx or
\* not, apart from the doctor normalization on a successful GET.
C17_AsStated ==
  AdminReplied =>
    /\ last.res.status = last.backend.status
    /\ DoctorArrayReply \/ last.res.body = last.backend.data

\* C17: a non-2xx reply with a JSON body is passed on with the backend's
\* status and body; a 2xx reply with a JSON body is answered with status 200
\* and the backend's body (the normalized array, or 500 when an element is
\* null, for a doctor list); a reply whose body is not JSON is answered by
\* GET with {} under the backend's status (200 for 2xx) and by POST and PUT
\* with 500 and their error message.
C17_PassThrough ==
  AdminReplied =>
    LET ok == ResponseOk(last.backend.status)
    IN IF ~last.backend.parseOk
         THEN IF last.op = "adminGet"
                THEN /\ last.res.body = EmptyJson
                     /\ last.res.status = IF ok THEN 200 ELSE last.backend.status
                ELSE /\ last.res.status = 500
                     /\ ErrorOf(last.res) \in {Msg("Failed to create resource"),
                                               Msg("Failed to update resource")}
       ELSE IF ~ok
         THEN /\ last.res.status = last.backend.status
              /\ last.res.body = last.backend.data
       ELSE IF DoctorArrayReply
         THEN IF \E i \in DOMAIN last.backend.data.v : last.backend.data.v[i] = Null
                THEN last.res.status = 500
                ELSE /\ last.res.status = 200
                     /\ last.res.body.t = "array"
                     /\ Len(last.res.body.v) = Len(last.backend.data.v)
       ELSE /\ last.res.status = 200
            /\ last.res.body = last.backend.data

C17_Witness ==
  /\ AdminReplied
  /\ last.op = "adminPost"
  /\ last.backend.status = 201
  /\ last.backend.parseOk
  /\ last.backend.data.t = "object"
  /\ last.res.status = 200
  /\ last.res.body = last.backend.data

GetWithoutType ==
  /\ last # None
  /\ last.op = "adminGet"
  /\ last.req.type = Null

PostWithoutType ==
  /\ last # None
  /\ last.op = "adminPost"
  /\ last.req.bodyOk
  /\ last.req.body.t = "object"
  /\ ~Populated(last.req.body.v.type)

Answered(i) ==
  /\ last # None
  /\ last.op = "concurrent"
  /\ last.slots[i].pc = "done"

\* The backend outcome an invocation saw; none when it answered before its
\* fetch.
SeenBackend(slot) == IF slot.backend = NoBackend THEN Failure ELSE slot.backend

UsedMock(slot) ==
  /\ slot.handler = "predict"
  /\ slot.res.status = 200
  /\ ~(slot.backend.kind = "reply" /\ ResponseOk(slot.backend.status)
         /\ slot.backend.contentType \in JsonTypes /\ slot.backend.parseOk)

HandlerRan ==
  /\ last # None
  /\ last.op \in {"login", "predict", "adminGet", "adminPost", "adminPut", "stats"}

\* The response is a demo session or mock data produced after the backend
\* failed or rejected the call.
FellBack ==
  /\ last.backend.kind = "failure" \/ ~ResponseOk(last.backend.status)
  /\ last.res.status = 200

\* C20: every handler invocation (login, predict, admin GET/POST/PUT,
\* dashboard-stats) issues at most one backend request: a failed or rejected
\* backend call is never retried, and a demo or mock fallback is produced
\* after the one call, with no further one.
C20_AtMostOneBackendCall ==
  HandlerRan =>
    /\ Len(last.res.calls) <= 1
    /\ FellBack => Len(last.res.calls) = 1

C20_Witness ==
  /\ HandlerRan
  /\ last.op = "login"
  /\ DemoPairSubmitted(last.req)
  /\ last.backend.kind = "reply"
  /\ last.backend.status = 500
  /\ DoctorSession(last.res)
  /\ Len(last.res.calls) = 1

(***************************************************************************)
(* Properties of the Session Gate, continued                               *)
(***************************************************************************)
GateAnswered == last # None /\ last.op = "gate"

Continues(res) == res.kind = "next" /\ res.setCookies = <<>>

RedirectsToRoot(res) ==
  res.kind = "redirect" /\ res.location = P_root /\ res.setCookies = <<>>

ContinuesCleared(res) ==
  /\ res.kind = "next"
  /\ Len(res.setCookies) = 1
  /\ ClearsUserRole(res.setCookies)

\* C21: for every request and every cookie state the gate produces exactly
\* one of: continue, redirect to "/", or continue with the cookie cleared;
\* for a path that is neither "/" nor under /admin it continues and leaves
\* the cookie unchanged.
C21_GateOutcomes ==
  GateAnswered =>
    /\ Cardinality({o \in {"continue", "redirect", "cleared"} :
         \/ o = "continue" /\ Continues(last.res)
         \/ o = "redirect" /\ RedirectsToRoot(last.res)
         \/ o = "cleared" /\ ContinuesCleared(last.res)}) = 1
    /\ (last.req.pathname # P_root /\ ~AdminRoute(last.req.pathname)) =>
         (Continues(last.res) /\ jar = last.req.cookies)

C21_Witness ==
  /\ GateAnswered
  /\ last.req.pathname = P_dashboard
  /\ last.req.cookies = Str(S_Doctor)
  /\ Continues(last.res)
  /\ jar = Str(S_Doctor)

(***************************************************************************)
(* Properties of the Resource Proxy, continued                             *)
(***************************************************************************)
PutForwarded == PutWithObjectBody /\ Len(last.res.calls) = 1

\* The fields of the request body other than those named.
FieldsExcept(named) ==
  [f \in (DOMAIN last.req.body.v) \ named |-> last.req.body.v[f]]

\* C22: admin PUT forwards to /admin/doctors/<pathId> for every type value
\* (hospital included), where pathId is id when id is present and doctorId
\* otherwise, and the forwarded body holds exactly the request's fields
\* other than type, id and doctorId.
C22_PutForwarding ==
  PutForwarded =>
    LET call == last.res.calls[1]
    IN /\ call.method = "PUT"
       /\ call.path = <<"API_BASE", "/admin/", "doctors", "/">>
            \o JsString(IF Populated(PutField("id"))
                          THEN PutField("id") ELSE PutField("doctorId"))
       /\ call.body = Obj(FieldsExcept({"type", "id", "doctorId"}))

C22_Witness ==
  /\ PutForwarded
  /\ PutField("type") = Str(S_hospital)
  /\ PutField("id") = Undef
  /\ PutField("doctorId") = Str(S_123456)
  /\ PutField("status") = Msg("Suspended")
  /\ last.res.calls[1].path = <<"API_BASE", "/admin/", "doctors", "/">> \o S_123456
  /\ last.res.calls[1].body = Obj([status |-> Msg("Suspended")])

\* The collection the claim names for a type.
StatedCollection(type) == IF type = Str(S_doctor) THEN "doctors" ELSE "hospitals"

GetForwarded ==
  /\ last # None
  /\ last.op = "adminGet"
  /\ NonEmptyStr(last.req.type)

PostForwarded ==
  /\ last # None
  /\ last.op = "adminPost"
  /\ last.req.bodyOk
  /\ last.req.body.t = "object"
  /\ NonEmptyStr(last.req.body.v.type)

\* C23: admin GET and POST call the backend collection /admin/doctors when
\* type is "doctor" and /admin/hospitals for every other non-empty type, and
\* POST forwards exactly the request's fields with type removed.
C23_CollectionMapping ==
  /\ GetForwarded =>
       /\ Len(last.res.calls) = 1
       /\ last.res.calls[1].method = "GET"
       /\ last.res.calls[1].path =
            <<"API_BASE", "/admin/", StatedCollection(last.req.type)>>
  /\ PostForwarded =>
       /\ Len(last.res.calls) = 1
       /\ last.res.calls[1].method = "POST"
       /\ last.res.calls[1].path =
            <<"API_BASE", "/admin/", StatedCollection(last.req.body.v.type)>>
       /\ last.res.calls[1].body = Obj(FieldsExcept({"type"}))

C23_Witness ==
  /\ PostForwarded
  /\ last.req.body.v.type = Str(S_hospital)
  /\ last.req.body.v.name = Msg("A")
  /\ last.res.calls[1].path = <<"API_BASE", "/admin/", "hospitals">>
  /\ last.res.calls[1].body.v.name = Msg("A")
  /\ "type" \notin DOMAIN last.res.calls[1].body.v

(***************************************************************************)
(* Properties of the Session Gate and the client, continued                *)
(***************************************************************************)
\* An admin-path request whose structured cookie list yields no user_role
\* while its raw Cookie header carries a user_role value.
HeaderOnlyRole ==
  /\ GateAnswered
  /\ AdminRoute(last.req.pathname)
  /\ ~Truthy(last.req.cookies)
  /\ Truthy(RoleFromHeader(last.req.cookieHeader))

\* C24: on an admin-path request where the structured cookie accessor yields
\* no user_role but the raw Cookie header contains user_role=<v>, the gate
\* decides on <v>: it lets the request through when <v> is "admin" in any
\* letter case and redirects to "/" otherwise.
C24_RawHeaderFallback ==
  HeaderOnlyRole =>
    IF ToLowerCase(RoleFromHeader(last.req.cookieHeader).v) = S_admin
      THEN last.res.kind = "next"
      ELSE last.res.kind = "redirect" /\ last.res.location = P_root

(***************************************************************************)
(* Properties of the Resource Proxy: forwarded headers                     *)
(***************************************************************************)
AdminCalled ==
  /\ last # None
  /\ last.op \in {"adminGet", "adminPost", "adminPut"}
  /\ last.res.calls # <<>>

HeaderNames == {"contentType", "authorization", "cookie"}

\* C25 as stated: the headers of every admin backend call contain
\* Content-Type: application/json, Authorization exactly when the inbound
\* request has one and Cookie exactly when the inbound request has one, each
\* with the inbound value, and no other header.
C25_AsStated ==
  AdminCalled =>
    LET headers == last.res.calls[1].headers
    IN /\ DOMAIN headers = HeaderNames
       /\ headers.contentType = "application/json"
       /\ headers.authorization =
            IF last.req.authorization # Null THEN last.req.authorization ELSE Undef
       /\ headers.cookie = IF last.req.cookie # Null THEN last.req.cookie ELSE Undef

\* C25: the headers of every admin backend call contain Content-Type:
\* application/json, Authorization exactly when the inbound request has a
\* non-empty one and Cookie exactly when the inbound request has a non-empty
\* one, each with the inbound value, and no other header.
C25_ForwardedHeaders ==
  AdminCalled =>
    LET headers == last.res.calls[1].headers
    IN /\ DOMAIN headers = HeaderNames
       /\ headers.contentType = "application/json"
       /\ headers.authorization =
            IF NonEmptyStr(last.req.authorization) THEN last.req.authorization
            ELSE Undef
       /\ headers.cookie =
            IF NonEmptyStr(last.req.cookie) THEN last.req.cookie ELSE Undef

C25_Witness ==
  /\ AdminCalled
  /\ last.op = "adminPut"
  /\ last.req.authorization = Str(<<>>)
  /\ last.req.cookie = Str(S_user_role_eq \o S_Admin)
  /\ last.res.calls[1].headers.authorization = Undef
  /\ last.res.calls[1].headers.cookie = last.req.cookie

\* A login that reached the backend and found it rejecting the credentials
\* or unreachable.
LoginRefused(l) ==
  /\ l.op = "login"
  /\ l.res.calls # <<>>
  /\ l.backend.kind = "failure" \/ BackendRejects(l.backend)

AdminPageRequest(l) == IsPageRequest(l) /\ AdminRoute(l.req.pathname)

\* C26 as stated: after a login in which the backend rejects the credentials
\* or is unreachable, every admin-path request of the client is redirected
\* to "/".
C26_AsStated ==
  (AdminPageRequest(last) /\ hist.followsRefused) =>
    (last.res.kind = "redirect" /\ last.res.location = P_root)

\* C26: a login in which the backend rejects the credentials or is
\* unreachable sets no cookie or sets user_role=Doctor (the demo fallback),
\* so it never issues a session that passes the admin gate; an admin-path
\* request right after such a login is redirected to "/" unless the client
\* still holds the admin cookie of an earlier successful login, which a
\* refused login without the demo fallback leaves in place.
C26_RefusedLoginIssuesNoAdmin ==
  [][/\ LoginRefused(last') =>
          IF last'.res.body.success
            THEN DoctorSession(last'.res) /\ jar' = Str(S_Doctor)
            ELSE last'.res.setCookies = <<>> /\ jar' = jar
     /\ (LoginRefused(last) /\ AdminPageRequest(last')) =>
          IF ~last.res.body.success /\ jar \in AnyCaseAdmin /\ jar = hist.issued
            THEN last'.res.kind = "next"
            ELSE last'.res.kind = "redirect" /\ last'.res.location = P_root]_vars

C26_Witness ==
  /\ AdminPageRequest(last)
  /\ hist.followsRefused
  /\ hist.issued = Str(S_Doctor)
  /\ jar = Str(S_Doctor)
  /\ last.res.kind = "redirect"
  /\ last.res.location = P_root

\* The client has followed the redirect of a denied admin request it made
\* while holding a cookie.
FollowedDenial ==
  /\ variant = "clearing"
  /\ last.op = "follow"
  /\ Truthy(hist.denied)

\* C27: in the gate variant that clears the cookie on "/", a client holding
\* a non-admin session that requests an admin path and follows the redirect
\* to "/" ends with its user_role cookie cleared.
C27_DeniedAdminLogsOut ==
  FollowedDenial =>
    /\ hist.denied \notin AnyCaseAdmin
    /\ last.req.pathname = P_root
    /\ last.req.cookies = hist.denied
    /\ last.res.ran
    /\ ClearsUserRole(last.res.setCookies)
    /\ jar = Undef

C27_Witness ==
  /\ FollowedDenial
  /\ hist.denied = Str(S_Doctor)
  /\ hist.issued = Str(S_Doctor)
  /\ last.req.pathname = P_root
  /\ jar = Undef

(***************************************************************************)
(* Properties of the Session Issuer: replies that are not usable JSON      *)
(***************************************************************************)
ReachedBackend ==
  /\ last # None
  /\ last.op = "login"
  /\ Len(last.res.calls) = 1

AcceptedWithoutJson ==
  /\ ReachedBackend
  /\ last.backend.kind = "reply"
  /\ ResponseOk(last.backend.status)
  /\ last.backend.contentType \notin JsonTypes

\* C28: a login whose backend reply is 2xx but has no JSON content type is
\* answered with status 401, success:false, error "Authentication failed"
\* and no cookie, also when the submitted credentials are the demo pair.
C28_NonJsonSuccess ==
  AcceptedWithoutJson =>
    /\ last.res.status = 401
    /\ ~last.res.body.success
    /\ last.res.body.error = Msg("Authentication failed")
    /\ last.res.setCookies = <<>>
    /\ jar = Undef

C28_Witness ==
  /\ AcceptedWithoutJson
  /\ DemoPairSubmitted(last.req)
  /\ last.backend.contentType = CT_html
  /\ last.res.status = 401
  /\ last.res.setCookies = <<>>

UnparseableJson ==
  /\ ReachedBackend
  /\ last.backend.kind = "reply"
  /\ last.backend.contentType \in JsonTypes
  /\ ~last.backend.parseOk

\* C29: a login whose backend reply declares a JSON content type but has a
\* body that fails to parse is handled exactly like a transport failure,
\* whatever the backend's HTTP status: demo credentials get the fallback
\* Doctor session, all other credentials get 503.
C29_UnparseableLikeFailure ==
  UnparseableJson =>
    /\ last.res = LoginPOST(last.req, Failure)
    /\ IF SentNonDemo(last.res.calls[1])
         THEN /\ last.res.status = 503
              /\ ~last.res.body.success
              /\ last.res.setCookies = <<>>
         ELSE DoctorSession(last.res) /\ jar = Str(S_Doctor)

C29_Witness ==
  /\ UnparseableJson
  /\ last.backend.status = 200
  /\ DemoPairSubmitted(last.req)
  /\ DoctorSession(last.res)
  /\ jar = Str(S_Doctor)

(***************************************************************************)
(* Properties of the Prediction Proxy, continued                           *)
(***************************************************************************)
\* The backend answered 2xx with a JSON body that has no resistant field or
\* a resistant other than true and 1.
NoPositiveVerdict ==
  /\ last # None
  /\ AnsweredFromBackend(last)
  /\ \/ last.backend.data.t # "object"
     \/ last.backend.data.v.resistant \notin {Bool(TRUE), Num(1)}

\* C30: a backend 2xx JSON prediction reply that lacks a resistant field, or
\* whose resistant is anything other than true or 1, is reported with status
\* 200 as resistant 0: not as an error, and not as a mock (the answer does
\* not depend on the request's age and duration or on Math.random).
C30_DefaultsToNotResistant ==
  NoPositiveVerdict =>
    /\ last.res.status = 200
    /\ last.res.body.resistant = Num(0)
    /\ last.res.body.error = Undef
    /\ Len(last.res.calls) = 1
    /\ \A req \in PredictRequests, r \in Randoms :
         req.bodyOk => PredictPOST(req, last.backend, r).body = last.res.body

C30_Witness ==
  /\ NoPositiveVerdict
  /\ last.req.body = Obj([age |-> Num(80), duration_days |-> Num(30)])
  /\ last.backend.data.t = "object"
  /\ last.backend.data.v.resistant = Str(<<"1">>)
  /\ last.backend.data.v.probability = Num(8000)
  /\ last.res.body.resistant = Num(0)
  /\ last.res.body.probability = Num(8000)

====
